---- MODULE Spec2Model ----
(***************************************************************************)
(* Model of src/handler.py: the serverless handler generate_video, the     *)
(* helpers it calls (check_wan_installation, download_model_if_needed,     *)
(* save_temp_image, run_wan_generate), the external generation process and *)
(* the files they share (temp images, the outputs directory).              *)
(***************************************************************************)
EXTENDS Integers, Sequences, FiniteSets, TLC

\* ------------------------------------------------------------------ bounds
\* Jobs the host hands to the handler in one behaviour.
MaxJobs == 2

\* Handler invocations that can be in progress at once (host worker slots).
Workers == {1, 2}

\* ------------------------------------------------------- python primitives
\* Python's None where a string is expected.
PyNone == "<None>"

\* An optional value: <<>> (key absent / None) or <<v>>.
Absent == <<>>
Some(v) == <<v>>

\* dict.get(key, default)
Get(opt, default) == IF opt = Absent THEN default ELSE opt[1]

\* bool(x) of a str-or-None value.
TruthyStr(s) == s # PyNone /\ s # ""

\* bool(x) of an optional int (None or an int).
TruthyInt(opt) == opt # Absent /\ opt[1] # 0

Digits == <<"0", "1", "2", "3", "4", "5", "6", "7", "8", "9">>

\* str(n) of a non-negative int.
RECURSIVE Str(_)
Str(n) == IF n < 10 THEN Digits[n + 1] ELSE Str(n \div 10) \o Digits[(n % 10) + 1]

\* sub in s
Contains(s, sub) ==
    \/ Len(sub) = 0
    \/ \E i \in 1..(Len(s) - Len(sub) + 1) : SubSeq(s, i, i + Len(sub) - 1) = sub

\* s.split(sep)[1] for an s that contains sep: the text after the first sep, up
\* to the next sep.
RECURSIVE FirstAt(_, _, _)
FirstAt(s, sep, i) ==
    IF i + Len(sep) - 1 > Len(s) THEN 0
    ELSE IF SubSeq(s, i, i + Len(sep) - 1) = sep THEN i
    ELSE FirstAt(s, sep, i + 1)

SplitSecond(s, sep) ==
    LET a == FirstAt(s, sep, 1) + Len(sep)
        b == FirstAt(s, sep, a)
    IN  IF b = 0 THEN SubSeq(s, a, Len(s)) ELSE SubSeq(s, a, b - 1)

\* --------------------------------------------------------- MODEL_CONFIGS
MODEL_CONFIGS ==
    [ m \in {"ti2v-5B", "t2v-A14B", "i2v-A14B"} |->
        CASE m = "ti2v-5B" ->
                [path |-> "/workspace/Wan2.2-TI2V-5B", default_size |-> "1280*704",
                 alt_size |-> "704*1280", supports_t2v |-> TRUE, supports_i2v |-> TRUE]
          [] m = "t2v-A14B" ->
                [path |-> "/workspace/Wan2.2-T2V-A14B", default_size |-> "1280*720",
                 alt_size |-> "854*480", supports_t2v |-> TRUE, supports_i2v |-> FALSE]
          [] m = "i2v-A14B" ->
                [path |-> "/workspace/Wan2.2-I2V-A14B", default_size |-> "1280*720",
                 alt_size |-> "854*480", supports_t2v |-> FALSE, supports_i2v |-> TRUE] ]

DefaultModel == "ti2v-5B"

\* ------------------------------------------------------------ job objects
\* A job object: kind "ok" has an "input" dict with the optional keys below,
\* "no_input" has no "input" key, "bad_input" has an "input" that is not a dict.
Job(kind, model, prompt, image, size, seed) ==
    [kind |-> kind, model |-> model, prompt |-> prompt, image_base64 |-> image,
     size |-> size, seed |-> seed]

NoJob == Job("none", Absent, Absent, Absent, Absent, Absent)

ModelInputs == {Absent, Some("ti2v-5B"), Some("t2v-A14B"), Some("i2v-A14B"), Some("wan-9")}
PromptInputs == {Absent, Some(""), Some("a cat")}
ImageInputs == {Absent, Some(""), Some("data:image/jpeg;base64,QUJD"), Some("QUJ")}
SizeInputs == {Absent, Some(PyNone), Some("1280*704"), Some("704*1280")}
SeedInputs == {Absent, Some(0), Some(42)}

AllJobs ==
    { Job("ok", m, p, i, s, d) :
        m \in ModelInputs, p \in PromptInputs, i \in ImageInputs,
        s \in SizeInputs, d \in SeedInputs }
    \cup { Job("no_input", Absent, Absent, Absent, Absent, Absent),
           Job("bad_input", Absent, Absent, Absent, Absent, Absent) }

\* The jobs handed over while several invocations overlap.
OverlapJobs ==
    { Job("ok", Absent, Some("a cat"), i, Absent, Absent) :
        i \in {Absent, Some("data:image/jpeg;base64,QUJD")} }

StderrTexts == {"", "CUDA out of memory"}

VARIABLES
    concurrent,     \* the host runs invocations of the handler in parallel
    njobs,          \* jobs handed over so far
    pc,             \* per worker: position in generate_video
    job,            \* per worker: the job argument
    loc,            \* per worker: generate_video's locals
    proc,           \* per worker: the external generation process
    result,         \* per worker: what generate_video returned (<<>> if nothing)
    wan,            \* /workspace/Wan2.2: "absent", "no_script" or "ok"
    modelsPresent,  \* models whose checkpoint directory exists
    tmpFiles,       \* temp files made by save_temp_image that exist
    outputs,        \* files in /workspace/Wan2.2/outputs
    clock           \* source of modification times

vars == <<concurrent, njobs, pc, job, loc, proc, result, wan,
          modelsPresent, tmpFiles, outputs, clock>>

hostVars == <<concurrent>>

NoLocals ==
    [serial |-> 0, model_name |-> PyNone, prompt |-> PyNone, image_base64 |-> PyNone,
     mode_resolved |-> FALSE, is_t2v |-> FALSE, is_i2v |-> FALSE,
     validated |-> FALSE, params |-> Absent, scanned |-> FALSE,
     output_video_path |-> Absent, video_bytes |-> Absent]

NoProc == [state |-> "none", cmd |-> <<>>, returncode |-> 0, stderr |-> "", wrote |-> Absent]

\* ------------------------------------------------------------ the results
Exc(type, msg) == [type |-> type, msg |-> msg]

\* lines 258-262: the error-shaped result made by the except block.
ErrorResult(e) ==
    [status |-> "error", error |-> e.msg, traceback |-> e.type \o ": " \o e.msg]

B64Encode(bytes) == "b64(" \o bytes \o ")"

\* A success result that carries the payload under another key.
SuccessResultNoVideo(model_name, is_t2v, params, video_bytes) ==
    [status |-> "success",
     video_url |-> "data:video/mp4;base64," \o B64Encode(video_bytes),
     info |-> [model |-> model_name,
               mode |-> IF is_t2v THEN "t2v" ELSE "i2v",
               size |-> params.size,
               prompt |-> params.prompt,
               fps |-> 24]]

\* lines 241-251: the success result.
SuccessResult(model_name, is_t2v, params, video_bytes) ==
    [status |-> "success",
     video |-> "data:video/mp4;base64," \o B64Encode(video_bytes),
     info |-> [model |-> model_name,
               mode |-> IF is_t2v THEN "t2v" ELSE "i2v",
               size |-> params.size,
               prompt |-> params.prompt,
               fps |-> 24]]

\* raise e inside the try block: the except block returns the error result.
Raise(w, e) ==
    /\ result' = [result EXCEPT ![w] = Some(ErrorResult(e))]
    /\ pc' = [pc EXCEPT ![w] = "done"]

Goto(w, label) == pc' = [pc EXCEPT ![w] = label]

\* ---------------------------------------------------------------- the host
InitCommon ==
    /\ njobs = 0
    /\ pc = [w \in Workers |-> "idle"]
    /\ job = [w \in Workers |-> NoJob]
    /\ loc = [w \in Workers |-> NoLocals]
    /\ proc = [w \in Workers |-> NoProc]
    /\ result = [w \in Workers |-> Absent]
    /\ wan = "absent"
    /\ modelsPresent = {}
    /\ tmpFiles = {}
    /\ outputs = {}
    /\ clock = 0

Init ==
    /\ InitCommon
    /\ concurrent \in BOOLEAN

Active(w) == pc[w] # "idle"

\* The job objects the host may hand over.
Workload == IF concurrent THEN OverlapJobs ELSE AllJobs

\* The host calls generate_video(job) on the first free worker; unless it runs
\* jobs in parallel, only when no other call is in progress.
Start(w) ==
    /\ pc[w] = "idle"
    /\ njobs < MaxJobs
    /\ \A v \in Workers : v < w => Active(v)
    /\ concurrent \/ \A v \in Workers : ~Active(v)
    /\ \E j \in Workload :
          job' = [job EXCEPT ![w] = j]
    /\ njobs' = njobs + 1
    /\ loc' = [loc EXCEPT ![w] = [NoLocals EXCEPT !.serial = njobs + 1]]
    /\ proc' = [proc EXCEPT ![w] = NoProc]
    /\ result' = [result EXCEPT ![w] = Absent]
    /\ Goto(w, "called")
    /\ UNCHANGED <<hostVars, wan, modelsPresent, tmpFiles, outputs, clock>>

\* The host takes the outcome of the call (the returned result, or the
\* exception that escaped) and the worker becomes free.
Deliver(w) ==
    /\ pc[w] \in {"done", "propagated"}
    /\ Goto(w, "idle")
    /\ job' = [job EXCEPT ![w] = NoJob]
    /\ loc' = [loc EXCEPT ![w] = NoLocals]
    /\ proc' = [proc EXCEPT ![w] = NoProc]
    /\ result' = [result EXCEPT ![w] = Absent]
    /\ UNCHANGED <<hostVars, njobs, wan, modelsPresent, tmpFiles, outputs, clock>>

\* --------------------------------------------------- generate_video(job)
\* line 176: job_input = job["input"], before the try block. A job object
\* without the key raises KeyError here, outside any handler.
GetInput(w) ==
    /\ pc[w] = "called"
    /\ IF job[w].kind = "no_input" THEN Goto(w, "propagated") ELSE Goto(w, "try")
    /\ UNCHANGED <<hostVars, njobs, job, loc, proc, result, wan, modelsPresent,
                   tmpFiles, outputs, clock>>

\* check_wan_installation, lines 52-72: what the call can do from the state d
\* of /workspace/Wan2.2. Each outcome is the directory's new state and either
\* the exception raised by subprocess.run(check=True) or the value returned.
InstallOutcomes(d) ==
    IF d = "absent"
    THEN { [wan |-> "absent", raised |-> Some(Exc("CalledProcessError",
                "Command 'git clone' returned non-zero exit status 128.")), ret |-> FALSE],
           [wan |-> "ok", raised |-> Some(Exc("CalledProcessError",
                "Command 'pip install' returned non-zero exit status 1.")), ret |-> FALSE],
           [wan |-> "ok", raised |-> Absent, ret |-> TRUE],
           [wan |-> "no_script", raised |-> Absent, ret |-> FALSE] }
    ELSE { [wan |-> d, raised |-> Absent, ret |-> (d = "ok")] }

\* lines 179-181
CheckInstall(w) ==
    /\ pc[w] = "try"
    /\ \E o \in InstallOutcomes(wan) :
          /\ wan' = o.wan
          /\ IF o.raised # Absent THEN Raise(w, o.raised[1])
             ELSE IF ~o.ret THEN Raise(w, Exc("Exception", "Wan 2.2 installation failed"))
             ELSE Goto(w, "installed") /\ UNCHANGED result
    /\ UNCHANGED <<hostVars, njobs, job, loc, proc, modelsPresent, tmpFiles,
                   outputs, clock>>

\* lines 183-192: read model, prompt and image_base64; reject an unknown model.
Parse(w) ==
    /\ pc[w] = "installed"
    /\ IF job[w].kind = "bad_input"
       THEN /\ Raise(w, Exc("AttributeError", "object has no attribute 'get'"))
            /\ UNCHANGED loc
       ELSE LET model_name == Get(job[w].model, DefaultModel)
                prompt == Get(job[w].prompt, "")
                image_base64 == Get(job[w].image_base64, PyNone)
            IN  /\ loc' = [loc EXCEPT ![w].model_name = model_name,
                                      ![w].prompt = prompt,
                                      ![w].image_base64 = image_base64]
                /\ IF model_name \notin DOMAIN MODEL_CONFIGS
                   THEN Raise(w, Exc("ValueError", "Unknown model: " \o model_name
                            \o ". Available: ['ti2v-5B', 't2v-A14B', 'i2v-A14B']"))
                   ELSE Goto(w, "model_ok") /\ UNCHANGED result
    /\ UNCHANGED <<hostVars, njobs, job, proc, wan, modelsPresent, tmpFiles,
                   outputs, clock>>

\* download_model_if_needed, lines 74-98 (called at line 195).
Download(w) ==
    /\ pc[w] = "model_ok"
    /\ LET m == loc[w].model_name
       IN  \E ok \in (IF m \in modelsPresent THEN {TRUE} ELSE BOOLEAN) :
              IF ok
              THEN /\ modelsPresent' = modelsPresent \cup {m}
                   /\ Goto(w, "downloaded")
                   /\ UNCHANGED result
              ELSE /\ Raise(w, Exc("CalledProcessError",
                        "Command 'huggingface-cli download' returned non-zero exit status 1."))
                   /\ UNCHANGED modelsPresent
    /\ UNCHANGED <<hostVars, njobs, job, loc, proc, wan, tmpFiles, outputs, clock>>

\* The mode taken from "image_base64 is not None" instead of its truth value.
ResolveModeNotNone(image_base64) ==
    LET has_image == image_base64 # PyNone
    IN  [is_t2v |-> ~has_image, is_i2v |-> has_image]

\* lines 198-200: the task mode from the presence of an image.
ResolveMode(image_base64) ==
    LET has_image == TruthyStr(image_base64)
    IN  [is_t2v |-> ~has_image, is_i2v |-> has_image]

\* The compatibility check without its image-to-video half.
ModeErrorTextOnly(model_name, config, mode) ==
    IF mode.is_t2v /\ ~config.supports_t2v
    THEN Some(Exc("ValueError", model_name \o " does not support text-to-video"))
    ELSE Absent

\* lines 203-207: the error of the compatibility check, if any.
ModeError(model_name, config, mode) ==
    IF mode.is_t2v /\ ~config.supports_t2v
    THEN Some(Exc("ValueError", model_name \o " does not support text-to-video"))
    ELSE IF mode.is_i2v /\ ~config.supports_i2v
    THEN Some(Exc("ValueError", model_name \o " does not support image-to-video"))
    ELSE Absent

\* lines 197-207
ValidateMode(w) ==
    /\ pc[w] = "downloaded"
    /\ LET mode == ResolveMode(loc[w].image_base64)
           err == ModeError(loc[w].model_name, MODEL_CONFIGS[loc[w].model_name], mode)
       IN  /\ loc' = [loc EXCEPT ![w].mode_resolved = TRUE,
                                 ![w].is_t2v = mode.is_t2v,
                                 ![w].is_i2v = mode.is_i2v,
                                 ![w].validated = (err = Absent)]
           /\ IF err # Absent THEN Raise(w, err[1])
              ELSE Goto(w, "validated") /\ UNCHANGED result
    /\ UNCHANGED <<hostVars, njobs, job, proc, wan, modelsPresent, tmpFiles,
                   outputs, clock>>

\* The size taken from the descriptor whatever the job says.
ParamSizeDefault(job_input, config) == config.default_size

\* line 211: params["size"]
ParamSize(job_input, config) == Get(job_input.size, config.default_size)

\* lines 210-214
MakeParams(job_input, config, prompt) ==
    [size |-> ParamSize(job_input, config),
     prompt |-> IF TruthyStr(prompt) THEN prompt ELSE PyNone,
     seed |-> job_input.seed,
     image_path |-> Absent]

\* lines 102-103: drop a data-URI prefix.
StripPrefix(image_base64) ==
    IF Contains(image_base64, "base64,") THEN SplitSecond(image_base64, "base64,")
    ELSE image_base64

\* line 105: base64.b64decode accepts text whose length is a multiple of 4.
B64DecodeOk(text) == Len(text) % 4 = 0

\* line 107: the name NamedTemporaryFile picks, unique per call.
TempImageName(serial) == "/tmp/tmp" \o Str(serial) \o ".jpg"

\* lines 209-218: build params; save_temp_image (lines 100-109) if an image came.
Prepare(w) ==
    /\ pc[w] = "validated"
    /\ LET params == MakeParams(job[w], MODEL_CONFIGS[loc[w].model_name], loc[w].prompt)
           image_base64 == loc[w].image_base64
           path == TempImageName(loc[w].serial)
       IN  IF ~TruthyStr(image_base64)
           THEN /\ loc' = [loc EXCEPT ![w].params = Some(params)]
                /\ Goto(w, "prepared")
                /\ UNCHANGED <<result, tmpFiles>>
           ELSE IF ~B64DecodeOk(StripPrefix(image_base64))
           THEN /\ loc' = [loc EXCEPT ![w].params = Some(params)]
                /\ Raise(w, Exc("binascii.Error", "Incorrect padding"))
                /\ UNCHANGED tmpFiles
           ELSE /\ tmpFiles' = tmpFiles \cup {path}
                /\ loc' = [loc EXCEPT ![w].params =
                                Some([params EXCEPT !.image_path = Some(path)])]
                /\ Goto(w, "prepared")
                /\ UNCHANGED result
    /\ UNCHANGED <<hostVars, njobs, job, proc, wan, modelsPresent, outputs, clock>>

\* lines 220-223: the log lines. params always has the key "prompt", so
\* params.get('prompt', 'None') is None when no prompt came, and None[:50]
\* raises TypeError.
Log(w) ==
    /\ pc[w] = "prepared"
    /\ IF loc[w].params[1].prompt = PyNone
       THEN Raise(w, Exc("TypeError", "'NoneType' object is not subscriptable"))
       ELSE Goto(w, "logged") /\ UNCHANGED result
    /\ UNCHANGED <<hostVars, njobs, job, loc, proc, wan, modelsPresent, tmpFiles,
                   outputs, clock>>

\* ------------------------------------------ run_wan_generate(model_name, params)
\* lines 119-142: the argument list.
BuildCmd(model_name, params) ==
    <<"python3", "/workspace/Wan2.2/generate.py",
      "--task", model_name,
      "--size", params.size,
      "--ckpt_dir", MODEL_CONFIGS[model_name].path,
      "--offload_model", "True",
      "--convert_model_dtype">>
    \o (IF model_name = "ti2v-5B" THEN <<"--t5_cpu">> ELSE <<>>)
    \o (IF TruthyStr(params.prompt) THEN <<"--prompt", params.prompt>> ELSE <<>>)
    \o (IF params.image_path # Absent THEN <<"--image", params.image_path[1]>> ELSE <<>>)
    \o (IF TruthyInt(params.seed) THEN <<"--seed", Str(params.seed[1])>> ELSE <<>>)

\* The value that follows flag in cmd: <<v>>, or <<>> when cmd has no such flag.
ArgAfter(cmd, flag) ==
    IF \E i \in 1..(Len(cmd) - 1) : cmd[i] = flag
    THEN Some(cmd[(CHOOSE i \in 1..(Len(cmd) - 1) :
                     cmd[i] = flag /\ \A k \in 1..(i - 1) : cmd[k] # flag) + 1])
    ELSE Absent

HasFlag(cmd, flag) == \E i \in 1..Len(cmd) : cmd[i] = flag

\* lines 116-152 (called at line 226): build the command and start the
\* process. ' '.join(cmd) at line 144 raises TypeError for an item that is None.
StartProcess(w) ==
    /\ pc[w] = "logged"
    /\ LET cmd == BuildCmd(loc[w].model_name, loc[w].params[1])
       IN  IF \E i \in 1..Len(cmd) : cmd[i] = PyNone
           THEN /\ Raise(w, Exc("TypeError",
                        "sequence item 5: expected str instance, NoneType found"))
                /\ UNCHANGED proc
           ELSE /\ proc' = [proc EXCEPT ![w] = [NoProc EXCEPT !.state = "running",
                                                               !.cmd = cmd]]
                /\ Goto(w, "running")
                /\ UNCHANGED result
    /\ UNCHANGED <<hostVars, njobs, job, loc, wan, modelsPresent, tmpFiles,
                   outputs, clock>>

OutputName(serial) == "/workspace/Wan2.2/outputs/video" \o Str(serial) \o ".mp4"

VideoBytes(serial) == "mp4 of job " \o Str(serial)

\* The external process writes its .mp4 into the outputs directory (it may
\* also end without having written one).
ProcessWrite(w) ==
    /\ proc[w].state = "running"
    /\ proc[w].wrote = Absent
    /\ clock' = clock + 1
    /\ outputs' = outputs \cup {[name |-> OutputName(loc[w].serial),
                                 st_mtime |-> clock + 1,
                                 content |-> VideoBytes(loc[w].serial)]}
    /\ proc' = [proc EXCEPT ![w].wrote = Some(OutputName(loc[w].serial))]
    /\ UNCHANGED <<hostVars, njobs, pc, job, loc, result, wan, modelsPresent, tmpFiles>>

\* The exception without the captured stderr.
GenerationFailedNoStderr(stderr) == Exc("Exception", "Generation failed")

\* line 156: the exception for a non-zero exit status.
GenerationFailed(stderr) == Exc("Exception", "Generation failed: " \o stderr)

\* The process ends and subprocess.run returns; lines 154-156.
ProcessExit(w) ==
    /\ pc[w] = "running"
    /\ proc[w].state = "running"
    /\ \E rc \in {0, 1}, err \in StderrTexts :
          /\ proc' = [proc EXCEPT ![w].state = "exited", ![w].returncode = rc,
                                  ![w].stderr = err]
          /\ IF rc # 0 THEN Raise(w, GenerationFailed(err))
             ELSE Goto(w, "exited") /\ UNCHANGED result
    /\ UNCHANGED <<hostVars, njobs, job, loc, wan, modelsPresent, tmpFiles,
                   outputs, clock>>

\* line 165: sorted(files, key=st_mtime, reverse=True)
NewestFirst(a, b) == a.st_mtime >= b.st_mtime

RECURSIVE SortedFiles(_)
SortedFiles(files) ==
    IF files = {} THEN <<>>
    ELSE LET first == CHOOSE f \in files : \A g \in files : NewestFirst(f, g)
         IN  <<first>> \o SortedFiles(files \ {first})

\* lines 161-170: pick the most recently modified .mp4 of the directory.
Scan(w) ==
    /\ pc[w] = "exited"
    /\ LET video_files == SortedFiles(outputs)
       IN  IF video_files = <<>>
           THEN /\ loc' = [loc EXCEPT ![w].scanned = TRUE]
                /\ Raise(w, Exc("Exception", "No output video found"))
           ELSE /\ loc' = [loc EXCEPT ![w].scanned = TRUE,
                                      ![w].output_video_path = Some(video_files[1].name)]
                /\ Goto(w, "selected")
                /\ UNCHANGED result
    /\ UNCHANGED <<hostVars, njobs, job, proc, wan, modelsPresent, tmpFiles,
                   outputs, clock>>

FileAt(path) == {f \in outputs : f.name = path}

\* lines 228-231: read the selected file. The read fails if the file is gone,
\* and can fail with an I/O or memory error otherwise.
ReadVideo(w) ==
    /\ pc[w] = "selected"
    /\ LET found == FileAt(loc[w].output_video_path[1])
       IN  \E ok \in (IF found = {} THEN {FALSE} ELSE BOOLEAN) :
              IF ok
              THEN /\ loc' = [loc EXCEPT ![w].video_bytes =
                                 Some((CHOOSE f \in found : TRUE).content)]
                   /\ Goto(w, "read")
                   /\ UNCHANGED result
              ELSE /\ Raise(w, IF found = {}
                               THEN Exc("FileNotFoundError", "No such file or directory")
                               ELSE Exc("OSError", "Input/output error"))
                   /\ UNCHANGED loc
    /\ UNCHANGED <<hostVars, njobs, job, proc, wan, modelsPresent, tmpFiles,
                   outputs, clock>>

\* lines 233-235: delete the temp image.
UnlinkImage(w) ==
    /\ pc[w] = "read"
    /\ LET image_path == loc[w].params[1].image_path
       IN  tmpFiles' = IF image_path # Absent THEN tmpFiles \ {image_path[1]}
                       ELSE tmpFiles
    /\ Goto(w, "image_unlinked")
    /\ UNCHANGED <<hostVars, njobs, job, loc, proc, result, wan, modelsPresent,
                   outputs, clock>>

\* lines 237-251: delete the output video and return the success result.
UnlinkOutput(w) ==
    /\ pc[w] = "image_unlinked"
    /\ LET found == FileAt(loc[w].output_video_path[1])
       IN  IF found = {}
           THEN /\ Raise(w, Exc("FileNotFoundError", "No such file or directory"))
                /\ UNCHANGED outputs
           ELSE /\ outputs' = outputs \ found
                /\ result' = [result EXCEPT ![w] =
                                Some(SuccessResult(loc[w].model_name, loc[w].is_t2v,
                                                   loc[w].params[1], loc[w].video_bytes[1]))]
                /\ Goto(w, "done")
    /\ UNCHANGED <<hostVars, njobs, job, loc, proc, wan, modelsPresent, tmpFiles, clock>>

Next ==
    \E w \in Workers :
        \/ Start(w)
        \/ GetInput(w)
        \/ CheckInstall(w)
        \/ Parse(w)
        \/ Download(w)
        \/ ValidateMode(w)
        \/ Prepare(w)
        \/ Log(w)
        \/ StartProcess(w)
        \/ ProcessWrite(w)
        \/ ProcessExit(w)
        \/ Scan(w)
        \/ ReadVideo(w)
        \/ UnlinkImage(w)
        \/ UnlinkOutput(w)
        \/ Deliver(w)


Spec == Init /\ [][Next]_vars

\* -------------------------------------------------------------- properties
\* What a job supplies, read off the job object.
SuppliesImage(j) == j.image_base64 # Absent /\ j.image_base64[1] # ""
SuppliesPrompt(j) == j.prompt # Absent /\ j.prompt[1] # ""
JobModel(j) == IF j.model = Absent THEN "ti2v-5B" ELSE j.model[1]

Ended(w) == pc[w] \in {"done", "propagated"}
Returned(w) == pc[w] = "done" /\ result[w] # Absent
Succeeded(w) == Returned(w) /\ result[w][1].status = "success"
Failed(w) == Returned(w) /\ result[w][1].status = "error"
GenerationStarted(w) == proc[w].state # "none"

\* C1: every call of generate_video that has ended has returned a result,
\* error-shaped on failure; no exception reached the host.
C1_NoExceptionEscapes ==
    \A w \in Workers :
        Ended(w) =>
            /\ pc[w] = "done"
            /\ result[w] # Absent
            /\ result[w][1].status = "error" =>
                  DOMAIN result[w][1] = {"status", "error", "traceback"}

\* C2: once generate_video has returned, the temp image of the job and the
\* output video it selected no longer exist, whatever the exit path.
C2_TempFilesGone ==
    \A w \in Workers :
        Ended(w) =>
            /\ TempImageName(loc[w].serial) \notin tmpFiles
            /\ loc[w].output_video_path # Absent =>
                  FileAt(loc[w].output_video_path[1]) = {}

\* C3: a returned result has exactly one of video and error: a success
\* result carries video and no error, an error result error and no video.
C3_ExactlyOneOfVideoError ==
    \A w \in Workers :
        Returned(w) =>
            LET r == result[w][1]
                hasVideo == "video" \in DOMAIN r
                hasError == "error" \in DOMAIN r
            IN  /\ r.status \in {"success", "error"}
                /\ r.status = "success" => hasVideo /\ ~hasError
                /\ r.status = "error" => hasError /\ ~hasVideo
                /\ hasVideo # hasError

C3_Witness ==
    \E w, v \in Workers : Succeeded(w) /\ Failed(v)

\* The job asks for a mode its model does not support.
ImageForTextOnlyModel(j) ==
    j.kind = "ok" /\ SuppliesImage(j) /\ JobModel(j) = "t2v-A14B"
NoImageForImageOnlyModel(j) ==
    j.kind = "ok" /\ ~SuppliesImage(j) /\ JobModel(j) = "i2v-A14B"

ValidationMessage(j) ==
    IF SuppliesImage(j) THEN JobModel(j) \o " does not support image-to-video"
    ELSE JobModel(j) \o " does not support text-to-video"

\* C4 as stated: an image for t2v-A14B, or no image for i2v-A14B, ends in the
\* validation error and the generation process is never started.
C4_AlwaysValidationError ==
    \A w \in Workers :
        (Ended(w) /\ (ImageForTextOnlyModel(job[w]) \/ NoImageForImageOnlyModel(job[w]))) =>
            /\ Failed(w)
            /\ result[w][1].error = ValidationMessage(job[w])
            /\ ~GenerationStarted(w)

\* C4 amended: such a job never starts the generation process and ends in an
\* error result; the error is the validation error whenever the steps before
\* the compatibility check (installation check, model download) succeeded.
C4_RejectedBeforeGeneration ==
    \A w \in Workers :
        (ImageForTextOnlyModel(job[w]) \/ NoImageForImageOnlyModel(job[w])) =>
            /\ ~GenerationStarted(w)
            /\ ~loc[w].validated
            /\ Ended(w) => Failed(w)
            /\ (Ended(w) /\ loc[w].mode_resolved) =>
                  result[w][1].error = ValidationMessage(job[w])

C4_Witness ==
    \E w \in Workers :
        /\ Failed(w)
        /\ ImageForTextOnlyModel(job[w])
        /\ result[w][1].error = "t2v-A14B does not support image-to-video"

\* C5: after a non-zero exit of the generation process the job's result is an
\* error whose message contains the captured stderr; the outputs directory
\* was not scanned and no video is returned.
C5_NonZeroExitIsError ==
    \A w \in Workers :
        (proc[w].state = "exited" /\ proc[w].returncode # 0) =>
            /\ Failed(w)
            /\ Contains(result[w][1].error, proc[w].stderr)
            /\ "video" \notin DOMAIN result[w][1]
            /\ ~loc[w].scanned
            /\ loc[w].output_video_path = Absent

C5_Witness ==
    \E w \in Workers :
        /\ proc[w].state = "exited" /\ proc[w].returncode # 0
        /\ proc[w].stderr = "CUDA out of memory"
        /\ Failed(w)

\* C6: the resolved mode follows image presence (text-only without an image,
\* image-conditioned with one), it passes the check exactly when the model's
\* flag allows it, and a success result reports a mode the model supports.
C6_ModeFromImageAndFlags ==
    \A w \in Workers :
        LET j == job[w]
        IN  /\ loc[w].mode_resolved =>
                  /\ loc[w].is_t2v = ~SuppliesImage(j)
                  /\ loc[w].is_i2v = SuppliesImage(j)
                  /\ loc[w].validated =
                        IF SuppliesImage(j) THEN MODEL_CONFIGS[JobModel(j)].supports_i2v
                        ELSE MODEL_CONFIGS[JobModel(j)].supports_t2v
            /\ Succeeded(w) =>
                  /\ result[w][1].info.mode = IF SuppliesImage(j) THEN "i2v" ELSE "t2v"
                  /\ result[w][1].info.mode = "t2v" => MODEL_CONFIGS[JobModel(j)].supports_t2v
                  /\ result[w][1].info.mode = "i2v" => MODEL_CONFIGS[JobModel(j)].supports_i2v

C6_Witness ==
    \E w, v \in Workers :
        /\ Succeeded(w) /\ result[w][1].info.mode = "i2v"
        /\ Succeeded(v) /\ result[v][1].info.mode = "t2v"

\* C7: a success result reports the size string the job supplied, or the
\* model's default_size when it supplied none, and that string is the value
\* of --size in the command line of the generation process.
C7_SizeEchoed ==
    \A w \in Workers :
        Succeeded(w) =>
            LET j == job[w]
                expected == IF j.size # Absent THEN j.size[1]
                            ELSE MODEL_CONFIGS[JobModel(j)].default_size
            IN  /\ result[w][1].info.size = expected
                /\ ArgAfter(proc[w].cmd, "--size") = Some(expected)

C7_Witness ==
    \E w \in Workers :
        /\ Succeeded(w)
        /\ JobModel(job[w]) = "ti2v-5B"
        /\ job[w].size = Some("1280*704")
        /\ result[w][1].info.size = "1280*704"

DataUri(bytes) == "data:video/mp4;base64," \o B64Encode(bytes)

\* C8: with jobs handled strictly one at a time, from an empty outputs
\* directory, a successful job returns the video its own process wrote.
C8_SerialJobReturnsOwnVideo ==
    \A w \in Workers :
        (~concurrent /\ Succeeded(w)) =>
            /\ proc[w].wrote # Absent
            /\ result[w][1].video = DataUri(VideoBytes(loc[w].serial))

\* C8, the overlapping case: a job has returned the video another job's
\* process wrote.
C8_OverlapReturnsForeignVideo ==
    \E w \in Workers :
        /\ concurrent
        /\ Succeeded(w)
        /\ proc[w].wrote # Absent
        /\ result[w][1].video # DataUri(VideoBytes(loc[w].serial))

\* C9: a job with an image and no prompt, for a model that supports
\* image-conditioning, reaches the generation call once its image is decoded
\* and its size is a string, with no --prompt in the argument list.
C9_PromptOptional ==
    \A w \in Workers :
        LET j == job[w]
        IN  ( /\ Ended(w)
              /\ j.kind = "ok"
              /\ SuppliesImage(j) /\ ~SuppliesPrompt(j)
              /\ loc[w].validated
              /\ loc[w].params # Absent
              /\ loc[w].params[1].image_path # Absent
              /\ j.size # Some(PyNone) ) =>
                /\ GenerationStarted(w)
                /\ ~HasFlag(proc[w].cmd, "--prompt")

\* C10: the argument list of the generation process has --seed followed by
\* the job's seed exactly when the job supplies a seed, 0 included.
C10_SeedPassed ==
    \A w \in Workers :
        GenerationStarted(w) =>
            IF job[w].seed # Absent
            THEN ArgAfter(proc[w].cmd, "--seed") = Some(Str(job[w].seed[1]))
            ELSE ~HasFlag(proc[w].cmd, "--seed")
====
